---- MODULE Spec2Model ----
(***************************************************************************)
(* Model of pgwire's result-encoding layer, src/api/results.rs:            *)
(*   Tag -> CommandComplete, FieldInfo -> FieldDescription,                *)
(*   DataRowEncoder (encode_field / finish) and QueryResponse streaming.   *)
(***************************************************************************)
EXTENDS Integers, Sequences, FiniteSets, TLC

VARIABLES
    \* Tag / CommandComplete
    tagCall,        \* the constructor call that built the tag
    tag,            \* Option<Tag>
    cc,             \* Option<CommandComplete>
    \* FieldInfo / RowDescription
    fields,         \* Option<Vec<FieldInfo>> handed to into_row_description
    rd,             \* Option<RowDescription>
    \* DataRowEncoder
    enc,            \* "unborn" | "open" | "finished"
    ncols,          \* the argument of DataRowEncoder::new
    buffer,         \* DataRowEncoder.buffer: the fields of the DataRow
    field_buffer,   \* DataRowEncoder.field_buffer: the scratch BytesMut
    calls,          \* per encode_field call: what the serializer did
    lastCall,       \* Option: arguments and result of the latest call
    row,            \* Option<DataRow> returned by finish
    \* QueryResponse
    row_stream,     \* the items the row source will produce, in order
    row_schema,     \* QueryResponse.row_schema
    qr,             \* "none" | "built" | "dropped"
    ended,          \* data_rows has returned None
    awaiting,       \* the consumer has an outstanding next() on data_rows
    requested,      \* number of next() calls the consumer has made
    pulled,         \* number of items taken out of the row source
    yielded         \* items data_rows has handed to the consumer

tagVars    == <<tagCall, tag, cc>>
fieldVars  == <<fields, rd>>
encVars    == <<enc, ncols, buffer, field_buffer, calls, lastCall, row>>
streamVars == <<row_stream, row_schema, qr, ended, awaiting, requested,
               pulled, yielded>>
vars       == <<tagVars, fieldVars, encVars, streamVars>>

(* Option<T> *)
None    == [some |-> FALSE]
Some(v) == [some |-> TRUE, val |-> v]
unwrap_or(o, d) == IF o.some THEN o.val ELSE d

\* ------------------------------------------------------------------------
\* Bounds
MaxRows   == 100   \* largest row count carried by a Tag
MaxFields == 2     \* longest Vec<FieldInfo>
MaxByte   == 1     \* byte values a serializer may write: 1..MaxByte
MaxCalls  == 3     \* encode_field calls per encoder
MaxCols   == 1     \* largest column count passed to DataRowEncoder::new
MaxItems  == 4     \* longest row source

\* ------------------------------------------------------------------------
\* Idle values of the components a specification does not exercise

TagIdle    == tagCall = <<"none">> /\ tag = None /\ cc = None
FieldIdle  == fields = None /\ rd = None
EncIdle    == /\ enc = "unborn" /\ ncols = 0 /\ buffer = <<>>
              /\ field_buffer = <<>> /\ calls = <<>>
              /\ lastCall = None /\ row = None
StreamIdle == /\ row_stream = <<>> /\ row_schema = None /\ qr = "none"
              /\ ended = FALSE /\ awaiting = FALSE
              /\ requested = 0 /\ pulled = 0 /\ yielded = <<>>

\* ------------------------------------------------------------------------
\* Tag and CommandComplete

Commands == {"SELECT", "INSERT", "UPDATE", "COMMIT", "CREATE TABLE"}

DigitChar(d) ==
    CASE d = 0 -> "0" [] d = 1 -> "1" [] d = 2 -> "2" [] d = 3 -> "3"
      [] d = 4 -> "4" [] d = 5 -> "5" [] d = 6 -> "6" [] d = 7 -> "7"
      [] d = 8 -> "8" [] d = 9 -> "9"

\* Display for usize: decimal digits, no sign, no leading zero
RECURSIVE FmtUsize(_)
FmtUsize(n) ==
    IF n < 10 THEN DigitChar(n)
    ELSE FmtUsize(n \div 10) \o DigitChar(n % 10)

\* format!("{} {rows}", tag.command)
FmtTagWithRows(command, rows) == command \o " " \o FmtUsize(rows)


\* a rendering that always writes the separator
TagIntoCommandComplete_separatorAlways(t) ==
    [tag |-> t.command \o " " \o
             (IF t.rows.some THEN FmtUsize(t.rows.val) ELSE "")]

\* impl From<Tag> for CommandComplete
TagIntoCommandComplete(t) ==
    LET tag_string == IF t.rows.some
                      THEN FmtTagWithRows(t.command, t.rows.val)
                      ELSE t.command
    IN  [tag |-> tag_string]

\* Tag::new_for_query
TagNewForQuery(rows) == [command |-> "SELECT", rows |-> Some(rows)]

\* Tag::new_for_execution
TagNewForExecution(command, rows) == [command |-> command, rows |-> rows]

new_for_query ==
    /\ tag = None
    /\ \E n \in 0..MaxRows :
          /\ tag' = Some(TagNewForQuery(n))
          /\ tagCall' = <<"new_for_query", n>>
    /\ UNCHANGED <<cc, fieldVars, encVars, streamVars>>

new_for_execution ==
    /\ tag = None
    /\ \E c \in Commands, r \in {None} \cup {Some(n) : n \in 0..MaxRows} :
          /\ tag' = Some(TagNewForExecution(c, r))
          /\ tagCall' = <<"new_for_execution", c, r>>
    /\ UNCHANGED <<cc, fieldVars, encVars, streamVars>>

CommandCompleteFrom ==
    /\ tag.some
    /\ cc = None
    /\ cc' = Some(TagIntoCommandComplete(tag.val))
    /\ UNCHANGED <<tagCall, tag, fieldVars, encVars, streamVars>>

InitTag == TagIdle /\ FieldIdle /\ EncIdle /\ StreamIdle
NextTag == new_for_query \/ new_for_execution \/ CommandCompleteFrom
SpecTag == InitTag /\ [][NextTag]_vars

\* ------------------------------------------------------------------------
\* Reading a completion payload back, independently of the formatter

DigitVal(c) ==
    CASE c = "0" -> 0 [] c = "1" -> 1 [] c = "2" -> 2 [] c = "3" -> 3
      [] c = "4" -> 4 [] c = "5" -> 5 [] c = "6" -> 6 [] c = "7" -> 7
      [] c = "8" -> 8 [] c = "9" -> 9 [] OTHER -> -1

CharAt(s, i) == SubSeq(s, i, i)

IsDigits(s) == Len(s) > 0 /\ \A i \in 1..Len(s) : DigitVal(CharAt(s, i)) >= 0

RECURSIVE ParseDigits(_)
ParseDigits(s) ==
    IF Len(s) = 0 THEN 0
    ELSE 10 * ParseDigits(SubSeq(s, 1, Len(s) - 1)) + DigitVal(CharAt(s, Len(s)))

\* position of the last " " of s, 0 when there is none
LastSpace(s) ==
    LET ps == {i \in 1..Len(s) : CharAt(s, i) = " "}
    IN  IF ps = {} THEN 0 ELSE CHOOSE i \in ps : \A j \in ps : j <= i

\* C7: a Tag renders as "{command} {rows}" when rows is present (the text
\* after the last space is the canonical decimal of rows, the text before it
\* is the command) and as exactly "{command}" when rows is absent;
\* new_for_query(n) is the tag ("SELECT", Some(n)); the three documented
\* examples render as "SELECT 42", "INSERT 100" and "COMMIT".
C7_TagRendering ==
    /\ tagCall[1] = "new_for_query" =>
          tag = Some([command |-> "SELECT", rows |-> Some(tagCall[2])])
    /\ tagCall[1] = "new_for_execution" =>
          tag = Some([command |-> tagCall[2], rows |-> tagCall[3]])
    /\ cc.some =>
          LET text == cc.val.tag
              t    == tag.val
              sp   == LastSpace(text)
              num  == SubSeq(text, sp + 1, Len(text))
          IN  /\ ~t.rows.some => text = t.command
              /\ t.rows.some =>
                    /\ sp > 0
                    /\ SubSeq(text, 1, sp - 1) = t.command
                    /\ IsDigits(num)
                    /\ ParseDigits(num) = t.rows.val
                    /\ (Len(num) > 1 => CharAt(num, 1) # "0")
              /\ tagCall = <<"new_for_query", 42>> => text = "SELECT 42"
              /\ tagCall = <<"new_for_execution", "INSERT", Some(100)>>
                    => text = "INSERT 100"
              /\ tagCall = <<"new_for_execution", "COMMIT", None>>
                    => text = "COMMIT"

C7_Witness ==
    /\ tagCall = <<"new_for_execution", "INSERT", Some(100)>>
    /\ cc = Some([tag |-> "INSERT 100"])

\* ------------------------------------------------------------------------
\* FieldFormat, FieldInfo, FieldDescription, RowDescription

\* messages::data::FORMAT_CODE_TEXT / FORMAT_CODE_BINARY
FORMAT_CODE_TEXT   == 0
FORMAT_CODE_BINARY == 1

\* FieldFormat::value
FieldFormatValue(f) ==
    CASE f = "Text"   -> FORMAT_CODE_TEXT
      [] f = "Binary" -> FORMAT_CODE_BINARY

\* postgres_types::Type values used as datatypes, each carrying its OID
Types == { [name |-> "int4", oid |-> 23], [name |-> "text", oid |-> 25] }

\* Type::oid
TypeOid(t) == t.oid

\* struct FieldInfo
FieldInfos ==
    [ name      : {"id", "name"},
      table_id  : {None, Some(0), Some(16384)},
      column_id : {None, Some(1)},
      datatype  : Types,
      format    : {"Text", "Binary"} ]


\* a conversion that passes the two identifiers in each other's place
FieldDescriptionFrom_idsSwapped(fi) ==
    [ name          |-> fi.name,
      table_id      |-> unwrap_or(fi.column_id, 0),
      column_id     |-> unwrap_or(fi.table_id, 0),
      type_id       |-> TypeOid(fi.datatype),
      type_size     |-> 0,
      type_modifier |-> 0,
      format_code   |-> FieldFormatValue(fi.format) ]

\* impl From<FieldInfo> for FieldDescription
FieldDescriptionFrom(fi) ==
    [ name          |-> fi.name,
      table_id      |-> unwrap_or(fi.table_id, 0),
      column_id     |-> unwrap_or(fi.column_id, 0),
      type_id       |-> TypeOid(fi.datatype),
      type_size     |-> 0,
      type_modifier |-> 0,
      format_code   |-> FieldFormatValue(fi.format) ]

\* fields.into_iter().map(Into::into).collect()
MapIntoFieldDescription(fs) ==
    [i \in 1..Len(fs) |-> FieldDescriptionFrom(fs[i])]

FieldVecs == UNION { [1..n -> FieldInfos] : n \in 0..MaxFields }

into_row_description ==
    /\ fields.some
    /\ rd = None
    /\ rd' = Some([fields |-> MapIntoFieldDescription(fields.val)])
    /\ UNCHANGED <<fields, tagVars, encVars, streamVars>>

InitField ==
    /\ TagIdle /\ EncIdle /\ StreamIdle
    /\ fields \in {Some(fs) : fs \in FieldVecs}
    /\ rd = None
NextField == into_row_description
SpecField == InitField /\ [][NextField]_vars

\* C9: each FieldInfo becomes the entry (name, table_id or 0, column_id or 0,
\* the datatype's OID, 0, 0, 0 for Text / 1 for Binary); a present identifier
\* passes through unchanged; the row description has one entry per input
\* field, in input order.
C9_FieldDescription ==
    rd.some =>
        LET ins  == fields.val
            outs == rd.val.fields
        IN  /\ Len(outs) = Len(ins)
            /\ \A i \in 1..Len(ins) :
                  LET fi == ins[i]
                      fd == outs[i]
                  IN  /\ fd.name = fi.name
                      /\ (fi.table_id.some  => fd.table_id = fi.table_id.val)
                      /\ (~fi.table_id.some => fd.table_id = 0)
                      /\ (fi.column_id.some  => fd.column_id = fi.column_id.val)
                      /\ (~fi.column_id.some => fd.column_id = 0)
                      /\ fd.type_id = fi.datatype.oid
                      /\ fd.type_size = 0
                      /\ fd.type_modifier = 0
                      /\ (fi.format = "Text"   => fd.format_code = 0)
                      /\ (fi.format = "Binary" => fd.format_code = 1)

C9_Witness ==
    /\ rd.some
    /\ Len(fields.val) = 2
    /\ fields.val[1].table_id = None /\ fields.val[1].format = "Binary"
    /\ fields.val[2].table_id = Some(16384) /\ fields.val[2].format = "Text"
    /\ fields.val[1].name # fields.val[2].name
    /\ rd.val.fields[1].table_id = 0 /\ rd.val.fields[1].format_code = 1
    /\ rd.val.fields[2].table_id = 16384 /\ rd.val.fields[2].format_code = 0

\* ------------------------------------------------------------------------
\* DataRowEncoder

\* what one serializer call (ToSqlText::to_sql_text / ToSql::to_sql) does:
\* it appends `out` to the buffer it is given and returns
\* Ok(IsNull::Yes), Ok(IsNull::No) or Err
Written  == {<<>>} \cup {<<b>> : b \in 1..MaxByte}
Outcomes == [res : {"Yes", "No", "Err"}, out : Written]

\* a value T: ToSql + ToSqlText is its two serializations
Values == [text : Outcomes, bin : Outcomes]

\* the format codes a caller passes (i16): the two defined ones and others
FormatCodes == {FORMAT_CODE_TEXT, FORMAT_CODE_BINARY, 2}


\* a dispatch that tests for the binary code instead of the text code
SelectSerializer_binaryIffOne(format) ==
    IF format = FORMAT_CODE_BINARY THEN "binary" ELSE "text"

\* if format == FORMAT_CODE_TEXT { to_sql_text } else { to_sql }
SelectSerializer(format) ==
    IF format = FORMAT_CODE_TEXT THEN "text" ELSE "binary"

Serialize(value, ser) == IF ser = "text" THEN value.text ELSE value.bin


\* an encoder that inserts each new field at the front of the row
FieldsAfter_pushFront(fs, res, bytes) ==
    CASE res = "Err" -> fs
      [] res = "No"  -> <<Some(bytes)>> \o fs
      [] res = "Yes" -> <<None>> \o fs

\* an encoder that records a failed value as a NULL field
FieldsAfter_nullOnErr(fs, res, bytes) ==
    CASE res = "Err" -> Append(fs, None)
      [] res = "No"  -> Append(fs, Some(bytes))
      [] res = "Yes" -> Append(fs, None)

\* self.buffer after encode_field, `bytes` being the scratch buffer after
\* the serializer ran
FieldsAfter(fs, res, bytes) ==
    CASE res = "Err" -> fs                          \* `?` returns early
      [] res = "No"  -> Append(fs, Some(bytes))     \* push(Some(split().freeze()))
      [] res = "Yes" -> Append(fs, None)            \* push(None)

\* self.field_buffer after encode_field
ScratchAfter(res, bytes) ==
    CASE res = "Err" -> bytes     \* `?` returns before split() and clear()
      [] res = "No"  -> <<>>      \* split() leaves it empty, then clear()
      [] res = "Yes" -> <<>>      \* clear()


\* a constructor that fills the row with ncols absent fields
DataRowEncoderNew_filled(n) ==
    [buffer |-> [i \in 1..n |-> None], field_buffer |-> <<>>]

\* DataRowEncoder::new: ncols is the capacity of the field vector only
DataRowEncoderNew(n) == [buffer |-> <<>>, field_buffer |-> <<>>]

DataRowEncoder_new ==
    /\ enc = "unborn"
    /\ \E n \in 0..MaxCols :
          /\ ncols' = n
          /\ buffer' = DataRowEncoderNew(n).buffer
          /\ field_buffer' = DataRowEncoderNew(n).field_buffer
    /\ enc' = "open"
    /\ UNCHANGED <<calls, lastCall, row, tagVars, fieldVars, streamVars>>

encode_field ==
    /\ enc = "open"
    /\ Len(calls) < MaxCalls
    /\ \E value \in Values, format \in FormatCodes :
          LET ser   == SelectSerializer(format)
              o     == Serialize(value, ser)
              bytes == field_buffer \o o.out
          IN  /\ buffer' = FieldsAfter(buffer, o.res, bytes)
              /\ field_buffer' = ScratchAfter(o.res, bytes)
              /\ calls' = Append(calls, o)
              /\ lastCall' = Some([value |-> value, format |-> format,
                                   ser |-> ser,
                                   result |-> IF o.res = "Err" THEN "Err" ELSE "Ok"])
    /\ UNCHANGED <<enc, ncols, row, tagVars, fieldVars, streamVars>>

\* DataRowEncoder::finish
DataRowEncoderFinish(fs) == fs

finish ==
    /\ enc = "open"
    /\ row' = Some(DataRowEncoderFinish(buffer))
    /\ enc' = "finished"
    /\ UNCHANGED <<ncols, buffer, field_buffer, calls, lastCall,
                   tagVars, fieldVars, streamVars>>

InitEnc == TagIdle /\ FieldIdle /\ EncIdle /\ StreamIdle
NextEnc == DataRowEncoder_new \/ encode_field \/ finish
SpecEnc == InitEnc /\ [][NextEnc]_vars

\* ------------------------------------------------------------------------
\* DataRowEncoder properties

Last(q) == q[Len(q)]

\* the field a serializer outcome stands for: absent, or its bytes
FieldOf(o) == IF o.res = "Yes" THEN None ELSE Some(o.out)

NoFailure(cs) == \A i \in 1..Len(cs) : cs[i].res # "Err"

RECURSIVE NumOk(_)
NumOk(cs) ==
    IF cs = <<>> THEN 0
    ELSE NumOk(Tail(cs)) + (IF Head(cs).res = "Err" THEN 0 ELSE 1)

\* C2 (as claimed): the scratch buffer is empty between encode_field calls,
\* whatever the outcome of the calls made so far.
C2_ScratchEmptyBetweenCalls ==
    enc = "open" => field_buffer = <<>>

\* C8 (as claimed): a value reported NULL gives an absent field, whatever the
\* format code; a value reported not NULL gives a present field holding
\* exactly the bytes the serializer wrote during that call.
C8_FieldIsWhatWasWritten ==
    (lastCall.some /\ lastCall.val.result = "Ok") =>
        LET o == Last(calls)
        IN  /\ o.res = "Yes" => Last(buffer) = None
            /\ o.res = "No"  => Last(buffer) = Some(o.out)

\* C4: after N encode_field calls that all succeeded, finish returns a row
\* of exactly N fields whose i-th field is what the i-th call produced:
\* absent if the serializer reported NULL, else the bytes it wrote.
C4_FinishKeepsEncodeOrder ==
    (row.some /\ NoFailure(calls)) =>
        /\ Len(row.val) = Len(calls)
        /\ \A i \in 1..Len(calls) : row.val[i] = FieldOf(calls[i])

C4_Witness ==
    /\ row.some
    /\ calls = << [res |-> "No",  out |-> <<1>>],
                  [res |-> "Yes", out |-> <<>>],
                  [res |-> "No",  out |-> <<>>] >>
    /\ row.val = << Some(<<1>>), None, Some(<<>>) >>

\* C5: a call whose serializer fails returns an error and leaves the row's
\* field list as it was, for the text and for the binary serializer.
C5_FailedEncodeAppendsNothing ==
    [][ (enc = "open" /\ Len(calls') = Len(calls) + 1
            /\ Last(calls').res = "Err")
        => (lastCall'.val.result = "Err" /\ buffer' = buffer) ]_vars

C5_Witness ==
    /\ Len(calls) = 3
    /\ calls[1].res = "No"
    /\ calls[2].res = "Err" /\ calls[3].res = "Err"
    /\ lastCall.val.result = "Err"
    /\ lastCall.val.format = FORMAT_CODE_BINARY
    /\ Len(buffer) = 1

\* C6 (as claimed): every row returned by finish has exactly the number of
\* fields given to DataRowEncoder::new.
C6_RowHasDeclaredColumnCount ==
    row.some => Len(row.val) = ncols

\* C6 (amended): the row returned by finish has exactly as many fields as
\* encode_field calls succeeded on the encoder, whatever count was given to
\* new, which only sizes the allocation.
C6_RowHasOneFieldPerSuccessfulEncode ==
    row.some => Len(row.val) = NumOk(calls)

C6_Witness ==
    /\ row.some
    /\ ncols = 1
    /\ Len(calls) = 3 /\ NumOk(calls) = 2
    /\ Len(row.val) = 2

\* C10: the text serializer runs exactly when the format code is 0; every
\* other code, 1 or not, runs the binary serializer, and the call fails only
\* if the serializer it selected fails, never because of the code.
C10_TextIffFormatZero ==
    lastCall.some =>
        LET c   == lastCall.val
            sel == IF c.format = 0 THEN c.value.text ELSE c.value.bin
        IN  /\ (c.ser = "text") <=> (c.format = 0)
            /\ (c.ser = "binary") <=> (c.format # 0)
            /\ Last(calls) = sel
            /\ (c.result = "Err") <=> (sel.res = "Err")

C10_Witness ==
    /\ lastCall.some
    /\ lastCall.val.format = 2
    /\ lastCall.val.value.text = [res |-> "Err", out |-> <<>>]
    /\ lastCall.val.value.bin  = [res |-> "No",  out |-> <<1>>]
    /\ lastCall.val.result = "Ok"
    /\ buffer = << Some(<<1>>) >>

\* ------------------------------------------------------------------------
\* QueryResponse and its row stream

\* items of a Stream<Item = PgWireResult<DataRow>>: two rows and a failure
Items == {"row1", "row2", "err"}
IsErr(item) == item = "err"

RowSources == UNION { [1..n -> Items] : n \in 0..MaxItems }

\* the column metadata a caller may pass as field_defs
FieldDefs == { None, Some(<<>>),
               Some(<< [name |-> "id", table_id |-> None, column_id |-> None,
                        datatype |-> [name |-> "int4", oid |-> 23],
                        format |-> "Binary"] >>) }


\* a constructor that fetches the first item ahead of the consumer
QueryResponseNew_prefetch(field_defs, src) ==
    [row_schema |-> field_defs,
     pulled |-> IF Len(src) > 0 THEN 1 ELSE 0,
     yielded |-> <<>>]

\* query_response: stores field_defs and boxes the stream; boxing polls
\* nothing, so no item has left the row source
QueryResponseNew(field_defs, src) ==
    [row_schema |-> field_defs, pulled |-> 0, yielded |-> <<>>]

query_response ==
    /\ qr = "none"
    /\ \E fd \in FieldDefs :
          LET r == QueryResponseNew(fd, row_stream)
          IN  /\ row_schema' = r.row_schema
              /\ pulled' = r.pulled
              /\ yielded' = r.yielded
    /\ qr' = "built"
    /\ UNCHANGED <<row_stream, ended, awaiting, requested,
                   tagVars, fieldVars, encVars>>

\* the consumer asks data_rows for its next item
next ==
    /\ qr = "built"
    /\ ~awaiting
    /\ ~ended
    /\ awaiting' = TRUE
    /\ requested' = requested + 1
    /\ UNCHANGED <<row_stream, row_schema, qr, ended, pulled, yielded,
                   tagVars, fieldVars, encVars>>


\* a wrapper that ends the stream at a failure instead of yielding it
BoxedPollNext_swallowErr(src, n) ==
    IF n < Len(src)
    THEN [pulled |-> n + 1,
          item |-> IF IsErr(src[n + 1]) THEN None ELSE Some(src[n + 1])]
    ELSE [pulled |-> n, item |-> None]

\* Pin<Box<dyn Stream>>::poll_next hands the poll to the boxed row source
\* and returns what it returns: the next item, or None at the end
BoxedPollNext(src, n) ==
    IF n < Len(src)
    THEN [pulled |-> n + 1, item |-> Some(src[n + 1])]
    ELSE [pulled |-> n,     item |-> None]

poll_next ==
    /\ qr = "built"
    /\ awaiting
    /\ LET r == BoxedPollNext(row_stream, pulled)
       IN  /\ pulled' = r.pulled
           /\ yielded' = IF r.item.some THEN Append(yielded, r.item.val)
                         ELSE yielded
           /\ ended' = ~r.item.some
    /\ awaiting' = FALSE
    /\ UNCHANGED <<row_stream, row_schema, qr, requested,
                   tagVars, fieldVars, encVars>>

\* the consumer stops consuming and releases the response
drop ==
    /\ qr = "built"
    /\ qr' = "dropped"
    /\ UNCHANGED <<row_stream, row_schema, ended, awaiting, requested,
                   pulled, yielded, tagVars, fieldVars, encVars>>

InitStream ==
    /\ TagIdle /\ FieldIdle /\ EncIdle
    /\ row_stream \in RowSources
    /\ row_schema = None /\ qr = "none" /\ ended = FALSE /\ awaiting = FALSE
    /\ requested = 0 /\ pulled = 0 /\ yielded = <<>>
NextStream == query_response \/ next \/ poll_next \/ drop
SpecStream == InitStream /\ [][NextStream]_vars

\* ------------------------------------------------------------------------
\* QueryResponse properties

ErrPositions(q) == {i \in 1..Len(q) : IsErr(q[i])}

\* a row source that keeps the producer contract: nothing after a failure
StopsAfterFailure(src) == \A i \in ErrPositions(src) : i = Len(src)

\* C1 (as claimed): for every row source, the items yielded so far hold at
\* most one failure and a failure is the last item yielded.
C1_FailureIsTerminal ==
    /\ Cardinality(ErrPositions(yielded)) <= 1
    /\ \A i \in ErrPositions(yielded) : i = Len(yielded)

\* C1 (amended): data_rows yields the row source's items unchanged and in
\* order; so when the row source yields nothing after a failure and its
\* item M is a failure, data_rows yields M-1 rows, then that failure, then
\* ends. A row source that goes on after a failure is passed through as is.
C1_PassThroughOfTheSource ==
    /\ qr # "none" => yielded = SubSeq(row_stream, 1, pulled)
    /\ StopsAfterFailure(row_stream) =>
          /\ Cardinality(ErrPositions(yielded)) <= 1
          /\ \A m \in ErrPositions(yielded) :
                /\ m = Len(yielded)
                /\ \A i \in 1..(m - 1) : ~IsErr(yielded[i])
                /\ pulled = Len(row_stream)

C1_Witness ==
    /\ row_stream = <<"row1", "row2", "err">>
    /\ yielded = <<"row1", "row2", "err">>
    /\ ended

\* C3: building the response pulls nothing from the row source, and the
\* row source never has more items pulled than the consumer has asked for.
C3_NoPullWithoutRequest ==
    /\ pulled <= requested
    /\ Len(yielded) <= requested
    /\ (requested = 0 => pulled = 0)

C3_Witness ==
    /\ qr = "dropped"
    /\ Len(row_stream) = 4
    /\ requested = 2
    /\ pulled = 2
    /\ yielded = SubSeq(row_stream, 1, 2)

====
